---- MODULE Spec2Model ----
(***************************************************************************)
(* Model of tln-backend: MarketUseCase.CreateMarket (guarded create: the   *)
(* provider lookup, the name lookup, the write and the enrichment read are *)
(* four separate calls to the repository, so concurrent invocations        *)
(* interleave between them) and UserHandler.DeleteUser.                    *)
(***************************************************************************)
EXTENDS Naturals, Integers, Sequences, FiniteSets, TLC

\* ---------------------------------------------------------------- bounds
NumInv == 2        \* CreateMarket invocations (HTTP requests in flight)
NumUsers == 2      \* user identifiers
MaxRequests == 3   \* DELETE /users/{id} requests served

\* ------------------------------------------------------ program constants
NOT_FOUND == 404
CONFLICT == 400
INTERNAL == 500
StatusForbidden == 403
StatusInternalServerError == 500
StatusOK == 200

Procs == 1..NumInv
ProviderIDs == {"P1", "P404"}
Providers == {"P1"}                 \* the provider rows that exist
Names == {"Central Market", "X"}
UserIDs == 1..NumUsers

VARIABLES
  markets,    \* the market table: sequence of rows, in insertion order
  nextUUID,   \* source of uuid.New()
  inv,        \* per invocation of CreateMarket: position, locals, result
  users,      \* the user table: set of user identifiers
  deleteCalls,\* arguments of the calls made to UserUseCase.DeleteUser
  resp        \* last response of UserHandler.DeleteUser (n: requests served)

vars == <<markets, nextUUID, inv, users, deleteCalls, resp>>
marketVars == <<markets, nextUUID, inv>>
userVars == <<users, deleteCalls, resp>>

\* ------------------------------------------------------------ data types
\* *entitiesDtos.ErrorResponse; the nil pointer is NoError
NoError == [Code |-> 0, Message |-> <<>>]
ErrorResponse(code, msg) == [Code |-> code, Message |-> msg]
\* *entities.Market; the nil pointer is NilMarket
NilMarket == [ID |-> 0, ProviderID |-> "", Name |-> ""]
NoRequest == [ProviderID |-> "", Name |-> ""]
MarketRequest(p, n) == [ProviderID |-> p, Name |-> n]

Rows(s) == {s[k] : k \in 1..Len(s)}
RowsNamed(s, n) == {k \in 1..Len(s) : s[k].Name = n}
RowsWithID(s, id) == {k \in 1..Len(s) : s[k].ID = id}

\* ------------------------------------------- repository (Interfaces.IMarket)
\* Each call returns one of a set of outcomes: the answer the table gives,
\* or a failure of the database.
DBError == ErrorResponse(INTERNAL, <<"db error">>)
RecordNotFound == ErrorResponse(NOT_FOUND, <<"record not found">>)

GetProviderByID(id) ==
  IF id \in Providers
    THEN {[provider |-> id, err |-> NoError], [provider |-> "", err |-> DBError]}
    ELSE {[provider |-> "", err |-> RecordNotFound], [provider |-> "", err |-> DBError]}

GetMarketByName(s, name) ==
  IF RowsNamed(s, name) # {}
    THEN {[market |-> s[k], err |-> NoError] : k \in RowsNamed(s, name)}
           \cup {[market |-> NilMarket, err |-> DBError]}
    ELSE {[market |-> NilMarket, err |-> RecordNotFound],
          [market |-> NilMarket, err |-> DBError]}

\* repo.CreateMarket: TRUE = the row was inserted, FALSE = the insert failed
RepoCreateMarket(s, entity) ==
  {[store |-> Append(s, entity), ok |-> TRUE], [store |-> s, ok |-> FALSE]}

GetMarketWithProviderByID(s, id) ==
  {[market |-> s[k], err |-> NoError] : k \in RowsWithID(s, id)}
    \cup {[market |-> NilMarket, err |-> DBError]}

\* --------------------------------------------- MarketUseCase.CreateMarket
Continue == [ret |-> FALSE, market |-> NilMarket, err |-> NoError]
Return(m, e) == [ret |-> TRUE, market |-> m, err |-> e]

\* variant: the error of the provider lookup is dropped
ProviderCheckIgnored(errRes) == Continue

\* lines 23-29: any error of the provider lookup is answered 404
ProviderCheck(errRes) ==
  IF errRes # NoError
    THEN Return(NilMarket, ErrorResponse(NOT_FOUND, <<"Provider not found">>))
    ELSE Continue

\* variant: the existing market is not looked at
NameCheckNoConflict(existingMarket, errRes) ==
  IF errRes # NoError /\ errRes.Code # 404
    THEN Return(NilMarket, ErrorResponse(INTERNAL,
                  <<"Failed to check market existence: ">> \o errRes.Message))
    ELSE Continue

\* variant: every error of the name lookup is taken for "not found"
NameCheckAnyErrorProceeds(existingMarket, errRes) ==
  IF existingMarket # NilMarket
    THEN Return(NilMarket, ErrorResponse(CONFLICT, <<"Market already exists">>))
    ELSE Continue

\* lines 32-45
NameCheck(existingMarket, errRes) ==
  IF errRes # NoError /\ errRes.Code # 404
    THEN Return(NilMarket, ErrorResponse(INTERNAL,
                  <<"Failed to check market existence: ">> \o errRes.Message))
    ELSE IF existingMarket # NilMarket
      THEN Return(NilMarket, ErrorResponse(CONFLICT, <<"Market already exists">>))
      ELSE Continue

\* variant: the identifier is not generated anew
NewMarketEntityFixedID(marketReq, uuid) ==
  [ID |-> 1, ProviderID |-> marketReq.ProviderID, Name |-> marketReq.Name]

\* lines 48-59
NewMarketEntity(marketReq, uuid) ==
  [ID |-> uuid, ProviderID |-> marketReq.ProviderID, Name |-> marketReq.Name]

\* lines 62-68
WriteCheck(ok) ==
  IF ~ok
    THEN Return(NilMarket, ErrorResponse(INTERNAL,
                  <<"Failed to create market: ", "db error">>))
    ELSE Continue

\* lines 71-80
EnrichCheck(createdMarket, errRes) ==
  IF errRes # NoError
    THEN Return(NilMarket, ErrorResponse(INTERNAL,
                  <<"Failed to retrieve market details: ">> \o errRes.Message))
    ELSE Return(createdMarket, NoError)

IdleInv ==
  [pc |-> "idle", req |-> NoRequest, entity |-> NilMarket, writes |-> 0,
   provErr |-> NoError, existing |-> NilMarket, nameErr |-> NoError,
   result |-> Continue, doneAtStart |-> {}, takenAtStart |-> FALSE,
   faulted |-> FALSE]

\* A request arrives and the handler calls uc.CreateMarket(marketReq)
Start(i) ==
  /\ inv[i].pc = "idle"
  /\ \E p \in ProviderIDs, n \in Names :
       inv' = [inv EXCEPT ![i] =
                 [@ EXCEPT !.pc = "getProvider", !.req = MarketRequest(p, n),
                           !.doneAtStart = {j \in Procs : inv[j].pc = "done"},
                           !.takenAtStart = (RowsNamed(markets, n) # {})]]
  /\ UNCHANGED <<markets, nextUUID, userVars>>

\* line 23-29
GetProviderStep(i) ==
  /\ inv[i].pc = "getProvider"
  /\ \E o \in GetProviderByID(inv[i].req.ProviderID) :
       LET c == ProviderCheck(o.err)
           r == [inv[i] EXCEPT !.provErr = o.err,
                               !.faulted = @ \/ (o.err = DBError)]
       IN inv' = [inv EXCEPT ![i] =
                    IF c.ret THEN [r EXCEPT !.pc = "done", !.result = c]
                             ELSE [r EXCEPT !.pc = "getName"]]
  /\ UNCHANGED <<markets, nextUUID, userVars>>

\* lines 32-59: the name lookup, then the mapping with a new uuid
GetNameStep(i) ==
  /\ inv[i].pc = "getName"
  /\ \E o \in GetMarketByName(markets, inv[i].req.Name) :
       LET c == NameCheck(o.market, o.err)
           r == [inv[i] EXCEPT !.existing = o.market, !.nameErr = o.err,
                               !.faulted = @ \/ (o.err = DBError)]
       IN IF c.ret
            THEN /\ inv' = [inv EXCEPT ![i] = [r EXCEPT !.pc = "done", !.result = c]]
                 /\ UNCHANGED nextUUID
            ELSE /\ inv' = [inv EXCEPT ![i] =
                      [r EXCEPT !.pc = "write",
                                !.entity = NewMarketEntity(inv[i].req, nextUUID)]]
                 /\ nextUUID' = nextUUID + 1
  /\ UNCHANGED <<markets, userVars>>

\* lines 62-68
WriteStep(i) ==
  /\ inv[i].pc = "write"
  /\ \E o \in RepoCreateMarket(markets, inv[i].entity) :
       LET c == WriteCheck(o.ok)
           r == [inv[i] EXCEPT !.writes = IF o.ok THEN @ + 1 ELSE @,
                               !.faulted = @ \/ ~o.ok]
       IN /\ markets' = o.store
          /\ inv' = [inv EXCEPT ![i] =
                       IF c.ret THEN [r EXCEPT !.pc = "done", !.result = c]
                                ELSE [r EXCEPT !.pc = "enrich"]]
  /\ UNCHANGED <<nextUUID, userVars>>

\* variant: a failed enrichment read deletes the row again
EnrichStepRollback(i) ==
  /\ inv[i].pc = "enrich"
  /\ \E o \in GetMarketWithProviderByID(markets, inv[i].entity.ID) :
       LET c == EnrichCheck(o.market, o.err)
       IN /\ inv' = [inv EXCEPT ![i] =
                       [@ EXCEPT !.pc = "done", !.result = c,
                                 !.faulted = @ \/ (o.err = DBError)]]
          /\ markets' = IF o.err # NoError
                          THEN SelectSeq(markets, LAMBDA r : r.ID # inv[i].entity.ID)
                          ELSE markets
  /\ UNCHANGED <<nextUUID, userVars>>

\* lines 71-80
EnrichStep(i) ==
  /\ inv[i].pc = "enrich"
  /\ \E o \in GetMarketWithProviderByID(markets, inv[i].entity.ID) :
       LET c == EnrichCheck(o.market, o.err)
       IN inv' = [inv EXCEPT ![i] =
                    [@ EXCEPT !.pc = "done", !.result = c,
                              !.faulted = @ \/ (o.err = DBError)]]
  /\ UNCHANGED <<markets, nextUUID, userVars>>

Init ==
  /\ markets = <<>>
  /\ nextUUID = 1
  /\ inv = [i \in Procs |-> IdleInv]
  /\ users = UserIDs
  /\ deleteCalls = <<>>
  /\ resp = [n |-> 0, token |-> 0, id |-> 0, status |-> 0]

Next ==
  \E i \in Procs :
    \/ Start(i)
    \/ GetProviderStep(i)
    \/ GetNameStep(i)
    \/ WriteStep(i)
    \/ EnrichStep(i)

Spec == Init /\ [][Next]_vars

\* ------------------------------------------------------------- user side
\* repo.DeleteUser / repo.CreateUser (Interfaces.IUserRepository)
RepoDeleteUser(us, id) == {[users |-> us \ {id}, ok |-> TRUE], [users |-> us, ok |-> FALSE]}
RepoCreateUser(us) ==
  {[users |-> us \cup {id}, ok |-> TRUE] : id \in UserIDs \ us} \cup {[users |-> us, ok |-> FALSE]}

\* UserUseCase.DeleteUser: the repository's error, wrapped
UseCaseDeleteUser(us, id) == RepoDeleteUser(us, id)

\* UserUseCase.CreateUser
CreateUser ==
  /\ \E o \in RepoCreateUser(users) : users' = o.users
  /\ UNCHANGED <<deleteCalls, resp, marketVars>>

\* variant: the token's identifier is not compared with the path's
DeleteUserUnchecked(userIdFromToken, userIdToDelete) ==
  /\ resp.n < MaxRequests
  /\ \E o \in UseCaseDeleteUser(users, userIdToDelete) :
       /\ users' = o.users
       /\ deleteCalls' = Append(deleteCalls, userIdToDelete)
       /\ resp' = [n |-> resp.n + 1, token |-> userIdFromToken,
                   id |-> userIdToDelete,
                   status |-> IF o.ok THEN StatusOK ELSE StatusInternalServerError]
  /\ UNCHANGED marketVars

\* UserHandler.DeleteUser
DeleteUser(userIdFromToken, userIdToDelete) ==
  /\ resp.n < MaxRequests
  /\ IF userIdFromToken # userIdToDelete
       THEN /\ resp' = [n |-> resp.n + 1, token |-> userIdFromToken,
                        id |-> userIdToDelete, status |-> StatusForbidden]
            /\ UNCHANGED <<users, deleteCalls>>
       ELSE \E o \in UseCaseDeleteUser(users, userIdToDelete) :
              /\ users' = o.users
              /\ deleteCalls' = Append(deleteCalls, userIdToDelete)
              /\ resp' = [n |-> resp.n + 1, token |-> userIdFromToken,
                          id |-> userIdToDelete,
                          status |-> IF o.ok THEN StatusOK
                                             ELSE StatusInternalServerError]
  /\ UNCHANGED marketVars

NextUser ==
  \/ CreateUser
  \/ \E t \in UserIDs, d \in UserIDs : DeleteUser(t, d)

SpecUser == Init /\ [][NextUser]_vars

\* ================================================================ claims
Done(i) == inv[i].pc = "done"
ProviderNotFoundError == ErrorResponse(NOT_FOUND, <<"Provider not found">>)
ConflictError == ErrorResponse(CONFLICT, <<"Market already exists">>)

\* C1: an invocation whose provider lookup reported "not found" has returned
\* 404 "Provider not found" without mapping an entity or writing a row.
C1_ProviderNotFound ==
  \A i \in Procs :
    inv[i].provErr = RecordNotFound =>
      /\ Done(i)
      /\ inv[i].result.err = ProviderNotFoundError
      /\ inv[i].result.market = NilMarket
      /\ inv[i].writes = 0
      /\ inv[i].entity = NilMarket

C1_Witness ==
  \E i \in Procs :
    /\ Done(i) /\ inv[i].provErr = RecordNotFound
    /\ inv[i].req.ProviderID \notin Providers
    /\ Len(markets) > 0

\* C2 as stated: an invocation whose name was already stored when it began
\* (and that met no database failure) returns CONFLICT without a write,
\* whether or not its provider exists.
C2_ConflictRegardlessOfProvider ==
  \A i \in Procs :
    Done(i) /\ inv[i].takenAtStart /\ ~inv[i].faulted =>
      inv[i].result.err.Code = CONFLICT /\ inv[i].writes = 0

\* C2 amended: the provider check comes first. A name lookup that returned a
\* stored market is answered CONFLICT without a write, and this happens only
\* after the provider lookup succeeded; when the provider lookup failed the
\* answer is NOT_FOUND although the name is taken, again without a write.
C2_ConflictAfterProviderCheck ==
  \A i \in Procs :
    /\ inv[i].existing # NilMarket =>
         /\ Done(i)
         /\ inv[i].result.err = ConflictError
         /\ inv[i].writes = 0 /\ inv[i].entity = NilMarket
         /\ inv[i].provErr = NoError
         /\ inv[i].existing \in Rows(markets)
         /\ inv[i].existing.Name = inv[i].req.Name
    /\ Done(i) /\ inv[i].takenAtStart /\ ~inv[i].faulted
         /\ inv[i].req.ProviderID \in Providers =>
         inv[i].result.err = ConflictError /\ inv[i].writes = 0
    /\ inv[i].takenAtStart /\ inv[i].provErr # NoError =>
         /\ Done(i)
         /\ inv[i].result.err = ProviderNotFoundError
         /\ inv[i].writes = 0

C2_Witness ==
  \E i \in Procs :
    /\ Done(i) /\ inv[i].takenAtStart
    /\ inv[i].existing # NilMarket
    /\ inv[i].result.err.Code = CONFLICT

\* C3: an invocation that passed both checks and met no failure wrote
\* exactly one row, whose identifier is non-empty and is the identifier of no
\* other row and of no other invocation's entity, and returned that row,
\* carrying the request's provider identifier and name.
C3_OneFreshWrite ==
  \A i \in Procs :
    /\ inv[i].writes <= 1
    /\ Done(i) /\ inv[i].provErr = NoError /\ inv[i].nameErr = RecordNotFound
         /\ inv[i].existing = NilMarket /\ ~inv[i].faulted =>
         /\ inv[i].writes = 1
         /\ inv[i].result.err = NoError
         /\ inv[i].result.market = inv[i].entity
         /\ inv[i].entity.ID > 0
         /\ Cardinality(RowsWithID(markets, inv[i].entity.ID)) = 1
         /\ \A j \in Procs \ {i} : inv[j].entity.ID # inv[i].entity.ID
         /\ inv[i].result.market.ProviderID = inv[i].req.ProviderID
         /\ inv[i].result.market.Name = inv[i].req.Name

C3_Witness ==
  \E i \in Procs :
    /\ Done(i) /\ inv[i].result.err = NoError /\ inv[i].writes = 1
    /\ ~inv[i].faulted
    /\ Len(markets) >= 2

\* C4: a name lookup that failed with a code other than 404 ends the
\* invocation with INTERNAL, no entity mapped and no row written; a name
\* lookup that failed with 404 and returned no market takes the invocation
\* to the write, whose outcome is a written row or a write failure.
C4_NameLookupErrors ==
  \A i \in Procs :
    /\ inv[i].nameErr # NoError /\ inv[i].nameErr.Code # NOT_FOUND =>
         /\ Done(i)
         /\ inv[i].result.err.Code = INTERNAL
         /\ inv[i].result.err.Code # CONFLICT
         /\ inv[i].writes = 0 /\ inv[i].entity = NilMarket
    /\ inv[i].nameErr = RecordNotFound /\ inv[i].existing = NilMarket =>
         /\ inv[i].pc \in {"write", "enrich", "done"}
         /\ inv[i].entity = NewMarketEntity(inv[i].req, inv[i].entity.ID)
         /\ inv[i].entity.ID > 0
         /\ inv[i].pc # "write" =>
              \/ inv[i].writes = 1
              \/ inv[i].result.err.Message[1] = "Failed to create market: "

C4_Witness ==
  \E i, j \in Procs :
    /\ Done(i) /\ inv[i].nameErr = DBError /\ inv[i].result.err.Code = INTERNAL
    /\ inv[j].nameErr = RecordNotFound /\ inv[j].writes = 1

\* C5: after a successful write and a failed enrichment read the invocation
\* returns INTERNAL and the written row is still stored: a lookup by its
\* identifier finds it.
C5_NoRollback ==
  \A i \in Procs :
    Done(i) /\ inv[i].writes = 1 /\ inv[i].result.err # NoError =>
      /\ inv[i].result.err.Code = INTERNAL
      /\ inv[i].result.err.Message[1] = "Failed to retrieve market details: "
      /\ inv[i].entity \in Rows(markets)
      /\ [market |-> inv[i].entity, err |-> NoError]
           \in GetMarketWithProviderByID(markets, inv[i].entity.ID)

C5_Witness ==
  \E i \in Procs :
    /\ Done(i) /\ inv[i].writes = 1
    /\ inv[i].result.err.Code = INTERNAL
    /\ inv[i].entity \in Rows(markets)

\* C6: of two failure-free invocations with the same existing provider and
\* the same name, the second started after the first returned, the name not
\* stored when the first began and used by no other invocation, the first
\* succeeded, the second returned CONFLICT, and one row has that name.
InSequence(i, j) ==
  /\ i # j /\ Done(i) /\ Done(j)
  /\ i \in inv[j].doneAtStart
  /\ inv[i].req = inv[j].req
  /\ inv[i].req.ProviderID \in Providers
  /\ ~inv[i].takenAtStart
  /\ ~inv[i].faulted /\ ~inv[j].faulted
  /\ \A k \in Procs \ {i, j} : inv[k].req.Name # inv[i].req.Name

C6_TwiceInSequence ==
  \A i, j \in Procs :
    InSequence(i, j) =>
      /\ inv[i].result.err = NoError
      /\ inv[i].result.market.Name = inv[i].req.Name
      /\ inv[j].result.err = ConflictError
      /\ Cardinality(RowsNamed(markets, inv[i].req.Name)) = 1

C6_Witness == \E i, j \in Procs : InSequence(i, j)

\* C7: no two stored markets share the same name.
C7_UniqueNames ==
  \A k1, k2 \in 1..Len(markets) :
    k1 # k2 => markets[k1].Name # markets[k2].Name

\* C8: an invocation that met a failure of the database in any of its four
\* repository calls returned INTERNAL.
C8_FailClosed ==
  \A i \in Procs :
    Done(i) /\ inv[i].faulted => inv[i].result.err.Code = INTERNAL

\* C9: two invocations with the same name can stand at the write together;
\* whenever they do, each holds a "not found" verdict of the name lookup,
\* neither has written, and nothing holds either write back.
BothAtWrite(i, j) ==
  /\ i # j
  /\ inv[i].pc = "write" /\ inv[j].pc = "write"
  /\ inv[i].req.Name = inv[j].req.Name

C9_BothPassCheck ==
  \A i, j \in Procs :
    BothAtWrite(i, j) =>
      /\ inv[i].nameErr = RecordNotFound /\ inv[j].nameErr = RecordNotFound
      /\ inv[i].existing = NilMarket /\ inv[j].existing = NilMarket
      /\ inv[i].writes = 0 /\ inv[j].writes = 0
      /\ inv[i].entity.Name = inv[j].entity.Name
      /\ inv[i].entity.ID # inv[j].entity.ID
      /\ ENABLED WriteStep(i) /\ ENABLED WriteStep(j)

C9_Witness ==
  \E i, j \in Procs : BothAtWrite(i, j) /\ RowsNamed(markets, inv[i].req.Name) = {}

\* C10: a DELETE request whose token identifier differs from the path
\* identifier is answered 403 without a call of the use case and without a
\* change of the user table; otherwise the use case is called once with that
\* identifier and the answer is 200 (the user is gone) or 500 (no change).
C10_DeleteOwnAccountOnly ==
  [][resp'.n # resp.n =>
       IF resp'.token # resp'.id
         THEN /\ resp'.status = StatusForbidden
              /\ deleteCalls' = deleteCalls
              /\ users' = users
         ELSE /\ deleteCalls' = Append(deleteCalls, resp'.id)
              /\ \/ resp'.status = StatusOK /\ users' = users \ {resp'.id}
                 \/ resp'.status = StatusInternalServerError /\ users' = users]_vars

C10_Witness ==
  /\ resp.status = StatusForbidden /\ resp.token # resp.id
  /\ resp.id \in users
  /\ Len(deleteCalls) > 0
====
